---- MODULE Spec2Model ----
(***************************************************************************)
(* Model of roscoekerby/calendar: the nth-weekday resolver, the ICS        *)
(* importer (invite_to_google_calendar.py), the holiday inserter           *)
(* (add_mothers_and_fathers_day_google_api.py) and the cleanup script      *)
(* (remove_mothers_and_fathers_day_not_yellow_google_api.py), run against  *)
(* one remote calendar.                                                    *)
(***************************************************************************)
EXTENDS Integers, Sequences, FiniteSets, TLC

VARIABLES
    rArgs,      \* resolver: the arguments of the pending/finished call
    rResult,    \* resolver: what the call returned
    tzlocal,    \* the process's local timezone, tz.tzlocal(), as a UTC offset
    file,       \* the components calendar.walk() yields for the chosen ICS file
    readable,   \* whether open() and Calendar.from_ical() succeed on it
    parsed,     \* what parse_ics_file returned
    remote,     \* the remote calendar: the events the gateway holds
    nextId,     \* the id the gateway gives the next inserted event
    pc,         \* the script that is running, or "idle"
    runs,       \* how many script runs have been started
    batch,      \* the list the running script's loop iterates over
    pos,        \* index in batch of the next item
    now,        \* cleanup: the timeMin sent to events().list
    success_count,  \* import: process_ics_file's counter
    tool,       \* history: the script of the current or last run
    outcome,    \* history: "running", "returned" or "raised"
    attempted,  \* history: insert/delete calls made in this run
    failed,     \* history: gateway calls of this run that failed
    before,     \* history: the remote calendar when this run started
    imported,   \* history: the events create_google_event inserted
    deleted     \* history: the events events().delete removed

resolverVars == <<rArgs, rResult>>
icsVars == <<tzlocal, file, readable, parsed>>
syncVars == <<remote, nextId, pc, runs, batch, pos, now, success_count,
              tool, outcome, attempted, failed, before, imported, deleted>>
vars == <<rArgs, rResult, tzlocal, file, readable, parsed, remote, nextId, pc, runs,
          batch, pos, now, success_count, tool, outcome, attempted, failed, before,
          imported, deleted>>

(***************************************************************************)
(* Bounds of the model.                                                    *)
(***************************************************************************)
YearSpan == 3       \* the resolver is tried on FirstYear .. FirstYear + YearSpan
MaxN == 6           \* largest occurrence index tried
MinNeg == 1         \* occurrence indices down to -MinNeg are tried
MaxFileLen == 2     \* most components in an ICS file given to the parser
MaxRuns == 2        \* script runs per behaviour
SyncSpan == 0       \* holiday runs take their years from FirstYear .. FirstYear + SyncSpan
MaxImportLen == 1   \* most components in an ICS file given to an import run

(***************************************************************************)
(* Python values.                                                          *)
(***************************************************************************)
None == [type |-> "NoneType"]
Pending == [type |-> "pending"]

SUNDAY == 6         \* calendar.SUNDAY (Monday is 0)

FirstYear == 2025   \* default start_year

Get(d, key, default) == IF key \in DOMAIN d THEN d[key] ELSE default

(***************************************************************************)
(* datetime.date: construction, weekday(), + timedelta(days=1).            *)
(***************************************************************************)
IsLeap(year) == (year % 4 = 0) /\ ((year % 100 # 0) \/ (year % 400 = 0))

DaysInMonth(year, month) ==
    IF month = 2 THEN (IF IsLeap(year) THEN 29 ELSE 28)
    ELSE IF month \in {4, 6, 9, 11} THEN 30 ELSE 31

\* datetime.date(year, month, day) raises ValueError unless this holds
ValidDate(year, month, day) ==
    /\ year \in 1..9999
    /\ month \in 1..12
    /\ day >= 1 /\ day <= DaysInMonth(year, month)

Date(year, month, day) == [type |-> "date", year |-> year, month |-> month, day |-> day]

DaysBeforeYear(year) ==
    LET y == year - 1 IN y * 365 + (y \div 4) - (y \div 100) + (y \div 400)

RECURSIVE DaysBeforeMonth(_, _)
DaysBeforeMonth(year, month) ==
    IF month <= 1 THEN 0
    ELSE DaysBeforeMonth(year, month - 1) + DaysInMonth(year, month - 1)

ToOrdinal(d) == DaysBeforeYear(d.year) + DaysBeforeMonth(d.year, d.month) + d.day

\* date.weekday(): Monday is 0, Sunday is 6
Weekday(d) == (ToOrdinal(d) + 6) % 7

\* date + datetime.timedelta(days=1)
PlusOneDay(d) ==
    IF d.day < DaysInMonth(d.year, d.month) THEN [d EXCEPT !.day = d.day + 1]
    ELSE IF d.month < 12 THEN [d EXCEPT !.month = d.month + 1, !.day = 1]
    ELSE [d EXCEPT !.year = d.year + 1, !.month = 1, !.day = 1]

\* date.isoformat() / strftime('%Y-%m-%d'): the text "YYYY-MM-DD"
IsoDate(d) == <<d.year, d.month, d.day>>

(***************************************************************************)
(* get_nth_weekday: scan day = 1 .. stop-1, break on ValueError.           *)
(***************************************************************************)
RECURSIVE NthScan(_, _, _, _, _, _, _)
NthScan(year, month, weekday, n, day, count, stop) ==
    IF day >= stop THEN None
    ELSE IF ~ValidDate(year, month, day) THEN None
    ELSE LET date == Date(year, month, day)
             hit == Weekday(date) = weekday
             c == IF hit THEN count + 1 ELSE count
         IN IF hit /\ c = n THEN date
            ELSE NthScan(year, month, weekday, n, day + 1, c, stop)

\* a scan that stops one day early: range(1, 31)
get_nth_weekday_short(year, month, weekday, n) ==
    NthScan(year, month, weekday, n, 1, 0, 31)

get_nth_weekday(year, month, weekday, n) ==
    NthScan(year, month, weekday, n, 1, 0, 32)

\* the generator script's copy builds datetime(year, month, day): midnight, naive
generator_get_nth_weekday(year, month, weekday, n) ==
    LET d == get_nth_weekday(year, month, weekday, n)
    IN IF d = None THEN None
       ELSE [type |-> "datetime", year |-> d.year, month |-> d.month, day |-> d.day,
             hour |-> 0, minute |-> 0, tzinfo |-> None]

(***************************************************************************)
(* datetime.datetime, tzinfo, hasattr, replace, isoformat, strftime.       *)
(***************************************************************************)
Tz(offset) == [type |-> "tzinfo", utcoffset |-> offset]

DateTime(year, month, day, hour, minute, tzinfo) ==
    [type |-> "datetime", year |-> year, month |-> month, day |-> day,
     hour |-> hour, minute |-> minute, tzinfo |-> tzinfo]

TypeError == [type |-> "exception", kind |-> "TypeError"]
IsExc(v) == v = TypeError

DateAttrs == {"year", "month", "day", "replace", "isoformat", "strftime", "weekday"}
DateTimeAttrs == DateAttrs \cup {"hour", "minute", "tzinfo", "date", "time", "astimezone"}

\* hasattr(v, name) for a date or a datetime
HasAttr(v, name) == name \in (IF v.type = "datetime" THEN DateTimeAttrs ELSE DateAttrs)

\* hasattr(v, 'tzinfo') and v.tzinfo
IsAware(v) == HasAttr(v, "tzinfo") /\ v.tzinfo # None

\* v.replace(tzinfo=tz): date.replace() accepts no tzinfo keyword
ReplaceTzinfo(v, tz) ==
    IF v.type = "datetime" THEN [v EXCEPT !.tzinfo = tz] ELSE TypeError

\* v + timedelta(hours=1): wall-clock arithmetic, tzinfo kept
PlusOneHour(v) ==
    IF v.hour < 23 THEN [v EXCEPT !.hour = v.hour + 1]
    ELSE LET d == PlusOneDay(Date(v.year, v.month, v.day))
         IN [v EXCEPT !.year = d.year, !.month = d.month, !.day = d.day, !.hour = 0]

\* v.isoformat(): "YYYY-MM-DD", or "YYYY-MM-DDTHH:MM" with "+HH:MM" when aware
isoformat(v) ==
    IF v.type = "date" THEN IsoDate(v)
    ELSE IF v.tzinfo = None THEN <<v.year, v.month, v.day, v.hour, v.minute>>
    ELSE <<v.year, v.month, v.day, v.hour, v.minute, v.tzinfo.utcoffset>>

\* v.strftime('%Y-%m-%d')
strftime(v) == <<v.year, v.month, v.day>>

(***************************************************************************)
(* ICSToGoogleCalendar.extract_event_data                                  *)
(***************************************************************************)
\* the text of a start or end time, or the exception raised while making it
TimeText(dt, local) ==
    IF IsAware(dt) THEN [text |-> isoformat(dt)]
    ELSE LET r == ReplaceTzinfo(dt, local)
         IN IF IsExc(r) THEN r ELSE [text |-> isoformat(r)]

\* the body of the try block: the dict, None, or the exception raised
ExtractBody(vevent, local) ==
    LET summary == Get(vevent, "summary", "No Title")
        description == Get(vevent, "description", "")
        location == Get(vevent, "location", "")
    IN
    IF "dtstart" \notin DOMAIN vevent THEN None
    ELSE
    LET start_dt == vevent.dtstart
        start_r == TimeText(start_dt, local)
    IN
    IF IsExc(start_r) THEN start_r
    ELSE
    LET end_r == IF "dtend" \in DOMAIN vevent THEN TimeText(vevent.dtend, local)
                 ELSE IF start_dt.type = "datetime"
                      THEN LET r == ReplaceTzinfo(PlusOneHour(start_dt), local)
                           IN IF IsExc(r) THEN r ELSE [text |-> isoformat(r)]
                      ELSE start_r
    IN
    IF IsExc(end_r) THEN end_r
    ELSE
    LET all_day == HasAttr(start_dt, "date") /\ ~HasAttr(start_dt, "time")
        start_time == IF all_day THEN strftime(start_dt) ELSE start_r.text
        end_time == IF all_day
                    THEN (IF "dtend" \in DOMAIN vevent THEN strftime(vevent.dtend)
                          ELSE strftime(start_dt))
                    ELSE end_r.text
    IN [summary |-> summary, description |-> description, location |-> location,
        start_time |-> start_time, end_time |-> end_time, all_day |-> all_day]

\* except Exception: print and return None
extract_event_data(vevent, local) ==
    LET r == ExtractBody(vevent, local) IN IF IsExc(r) THEN None ELSE r

(***************************************************************************)
(* ICSToGoogleCalendar.parse_ics_file                                      *)
(***************************************************************************)
\* events.append(event_data) with the check omitted
AppendAlways(events, event_data) == Append(events, event_data)

\* if event_data: events.append(event_data)
AppendIfEvent(events, event_data) ==
    IF event_data # None THEN Append(events, event_data) ELSE events

RECURSIVE Walk(_, _, _, _)
Walk(components, i, events, local) ==
    IF i > Len(components) THEN events
    ELSE LET component == components[i]
         IN IF component.name = "VEVENT"
            THEN Walk(components, i + 1,
                      AppendIfEvent(events, extract_event_data(component, local)), local)
            ELSE Walk(components, i + 1, events, local)

\* from_ical raising is caught by the outer except: messagebox, return None
parse_ics_file(components, ok, local) ==
    IF ~ok THEN None ELSE [events |-> Walk(components, 1, <<>>, local)]

(***************************************************************************)
(* ICS inputs.                                                             *)
(***************************************************************************)
LocalOffsets == {0 - 300, 120, 330}     \* UTC offsets, in minutes

NoKey == [k \in {} |-> None]

StartValues ==
    { Date(2026, 5, 10),
      DateTime(2026, 5, 10, 9, 0, None),
      DateTime(2026, 5, 10, 9, 0, Tz(120)),
      DateTime(2026, 12, 31, 23, 30, Tz(120)) }

EndValues ==
    { Date(2026, 5, 11),
      DateTime(2026, 5, 10, 10, 30, None),
      DateTime(2026, 5, 10, 10, 30, Tz(120)) }

StartOpts == {NoKey} \cup {("dtstart" :> v) : v \in StartValues}
EndOpts == {NoKey} \cup {("dtend" :> v) : v \in EndValues}

Components ==
    {([name |-> "VEVENT", summary |-> "Mother's Day"] @@ s) @@ e :
        s \in StartOpts, e \in EndOpts}
    \cup {[name |-> "VEVENT", dtstart |-> DateTime(2026, 5, 10, 9, 0, None)],
          [name |-> "VTIMEZONE"]}

RECURSIVE SeqsUpTo(_, _)
SeqsUpTo(S, n) ==
    IF n = 0 THEN {<<>>}
    ELSE LET shorter == SeqsUpTo(S, n - 1)
         IN shorter \cup {Append(q, x) : q \in shorter, x \in S}

(***************************************************************************)
(* Parser specification: parse_ics_file applied to a drawn file.           *)
(***************************************************************************)
ResolverIdle == rArgs = None /\ rResult = None

SyncIdle ==
    /\ remote = {} /\ nextId = 1 /\ pc = "idle" /\ runs = 0
    /\ batch = <<>> /\ pos = 1 /\ now = <<>> /\ success_count = 0
    /\ tool = "none" /\ outcome = "none" /\ attempted = 0 /\ failed = 0
    /\ before = {} /\ imported = {} /\ deleted = {}

InitICS ==
    /\ ResolverIdle
    /\ SyncIdle
    /\ tzlocal \in LocalOffsets
    /\ file \in SeqsUpTo(Components, MaxFileLen)
    /\ readable \in BOOLEAN
    /\ parsed = Pending

ParseFile ==
    /\ parsed = Pending
    /\ parsed' = parse_ics_file(file, readable, Tz(tzlocal))
    /\ UNCHANGED <<rArgs, rResult, tzlocal, file, readable, syncVars>>

NextICS == ParseFile

SpecICS == InitICS /\ [][NextICS]_vars

(***************************************************************************)
(* The remote calendar gateway: events().insert / list / delete.           *)
(***************************************************************************)
maxResults == 2500

\* minutes since the epoch of the instant a start/end field or a timeMin names
InstantOfText(t) ==
    ToOrdinal(Date(t[1], t[2], t[3])) * 1440
        + (IF Len(t) >= 5 THEN t[4] * 60 + t[5] ELSE 0)
        - (IF Len(t) >= 6 THEN t[6] ELSE 0)

FieldInstant(f) ==
    IF "date" \in DOMAIN f THEN InstantOfText(f.date) ELSE InstantOfText(f.dateTime)

StartsBefore(e, f) ==
    \/ FieldInstant(e.start) < FieldInstant(f.start)
    \/ FieldInstant(e.start) = FieldInstant(f.start) /\ e.id <= f.id

RECURSIVE SortByStart(_)
SortByStart(S) ==
    IF S = {} THEN <<>>
    ELSE LET m == CHOOSE e \in S : \A f \in S : StartsBefore(e, f)
         IN <<m>> \o SortByStart(S \ {m})

Range(q) == {q[i] : i \in 1..Len(q)}

\* events().list(timeMin=now, maxResults=2500, singleEvents=True, orderBy='startTime')
ListEvents(rem, timeMin) ==
    LET items == SortByStart({e \in rem : FieldInstant(e.end) > InstantOfText(timeMin)})
    IN IF Len(items) > maxResults THEN SubSeq(items, 1, maxResults) ELSE items

\* events().insert(body=...): the stored event carries the id the gateway gives it
Stored(body, id) == body @@ [id |-> id]

(***************************************************************************)
(* add_parents_days                                                        *)
(***************************************************************************)
HolidaySpecs ==
    << [title |-> "Mother's Day", month |-> 5, n |-> 2],
       [title |-> "Father's Day", month |-> 6, n |-> 3] >>

\* the (year, holiday) pairs the nested loops visit, in order
RECURSIVE AddItems(_, _)
AddItems(start_year, end_year) ==
    IF start_year > end_year THEN <<>>
    ELSE << [year |-> start_year, spec |-> HolidaySpecs[1]],
            [year |-> start_year, spec |-> HolidaySpecs[2]] >>
         \o AddItems(start_year + 1, end_year)

HolidayDate(item) == get_nth_weekday(item.year, item.spec.month, SUNDAY, item.spec.n)

HolidayEvent(event_date, title) ==
    [summary |-> title,
     start |-> [date |-> isoformat(event_date)],
     end |-> [date |-> isoformat(PlusOneDay(event_date))],
     colorId |-> "5"]

(***************************************************************************)
(* delete_non_yellow_parents_days                                          *)
(***************************************************************************)
Interest == {"Mother's Day", "Father's Day"}

IsYellow(event) == "colorId" \in DOMAIN event /\ event.colorId = "5"

\* deletes whatever is not yellow, the title not looked at
ShouldDeleteAnyTitle(event) == ~IsYellow(event)

\* deletes only events that carry no colorId
ShouldDeleteUntagged(event) ==
    Get(event, "summary", "") \in Interest /\ "colorId" \notin DOMAIN event

\* title in [...] and event.get('colorId', None) != '5'
ShouldDelete(event) ==
    Get(event, "summary", "") \in Interest /\ ~IsYellow(event)

(***************************************************************************)
(* ICSToGoogleCalendar.create_google_event: the body sent to insert.       *)
(***************************************************************************)
\* a body that tags the imported event yellow
google_event_tagged(event_data) ==
    [summary |-> event_data.summary, description |-> event_data.description,
     location |-> event_data.location,
     start |-> [dateTime |-> event_data.start_time],
     end |-> [dateTime |-> event_data.end_time],
     colorId |-> "5"]

google_event(event_data) ==
    IF event_data.all_day
    THEN [summary |-> event_data.summary, description |-> event_data.description,
          location |-> event_data.location,
          start |-> [date |-> event_data.start_time],
          end |-> [date |-> event_data.end_time]]
    ELSE [summary |-> event_data.summary, description |-> event_data.description,
          location |-> event_data.location,
          start |-> [dateTime |-> event_data.start_time],
          end |-> [dateTime |-> event_data.end_time]]

(***************************************************************************)
(* Inputs of the sync specification.                                       *)
(***************************************************************************)
AllDay(y, m, d) ==
    [start |-> [date |-> <<y, m, d>>], end |-> [date |-> IsoDate(PlusOneDay(Date(y, m, d)))]]

\* events already on the calendar when the scripts are first run
Seed ==
    { AllDay(2025, 5, 11) @@ [id |-> 1, summary |-> "Mother's Day", colorId |-> "5"],
      AllDay(2026, 5, 10) @@ [id |-> 2, summary |-> "Mother's Day"],
      AllDay(2026, 5, 10) @@ [id |-> 3, summary |-> "Mother's Day", colorId |-> "11"],
      AllDay(2026, 3, 1) @@ [id |-> 4, summary |-> "Unrelated", colorId |-> "11"],
      AllDay(2026, 3, 2) @@ [id |-> 5, colorId |-> "5"] }

\* the calendars a behaviour starts from: any union of the yellow holiday
\* event, the two other holiday events, and the two foreign events
SeedGroups ==
    { {e \in Seed : e.id \in {1}}, {e \in Seed : e.id \in {2, 3}},
      {e \in Seed : e.id \in {4, 5}} }

SeedCalendars == {UNION G : G \in SUBSET SeedGroups}

NowChoices == { <<2025, 1, 1, 0, 0, 0>>, <<2026, 1, 1, 0, 0, 0>> }

SyncYears == FirstYear .. (FirstYear + SyncSpan)

ImportComponents ==
    { [name |-> "VEVENT", summary |-> "Mother's Day",
       dtstart |-> DateTime(2026, 5, 10, 9, 0, None)],
      [name |-> "VEVENT", summary |-> "Team sync",
       dtstart |-> DateTime(2026, 5, 12, 9, 0, Tz(120)),
       dtend |-> DateTime(2026, 5, 12, 10, 30, Tz(120))],
      [name |-> "VEVENT", summary |-> "Father's Day", dtstart |-> Date(2026, 6, 21)] }

ImportFiles == SeqsUpTo(ImportComponents, MaxImportLen)

\* the import runs of the sync specification are made in one timezone
SyncOffsets == {330}

(***************************************************************************)
(* Sync specification: the three scripts, one run at a time, on one        *)
(* remote calendar.                                                        *)
(***************************************************************************)
Init ==
    /\ ResolverIdle
    /\ tzlocal \in SyncOffsets
    /\ file = <<>> /\ readable = FALSE /\ parsed = None
    /\ remote \in SeedCalendars
    /\ nextId = Cardinality(Seed) + 1
    /\ pc = "idle" /\ runs = 0
    /\ batch = <<>> /\ pos = 1 /\ now = <<>> /\ success_count = 0
    /\ tool = "none" /\ outcome = "none" /\ attempted = 0 /\ failed = 0
    /\ before = {} /\ imported = {} /\ deleted = {}

fixedVars == <<rArgs, rResult, tzlocal, file, readable, parsed>>

\* a run begins: the history of the previous run is reset
Begin(name) ==
    /\ pc = "idle"
    /\ runs < MaxRuns
    /\ runs' = runs + 1
    /\ tool' = name
    /\ attempted' = 0
    /\ before' = remote

\* an exception leaves the script: the process ends
Raise ==
    /\ pc' = "idle"
    /\ outcome' = "raised"

Return ==
    /\ pc' = "idle"
    /\ outcome' = "returned"

\* ---- add_parents_days(service, start_year, end_year)
StartAdd ==
    \E start_year \in SyncYears, end_year \in SyncYears \cup {FirstYear - 1} :
        /\ Begin("add")
        /\ failed' = 0
        /\ pc' = "add"
        /\ outcome' = "running"
        /\ batch' = AddItems(start_year, end_year)
        /\ pos' = 1
        /\ UNCHANGED <<fixedVars, remote, nextId, now, success_count, imported, deleted>>

AddInsertOk ==
    /\ pc = "add" /\ pos <= Len(batch)
    /\ HolidayDate(batch[pos]) # None
    /\ remote' = remote \cup
         {Stored(HolidayEvent(HolidayDate(batch[pos]), batch[pos].spec.title), nextId)}
    /\ nextId' = nextId + 1
    /\ attempted' = attempted + 1
    /\ pos' = pos + 1
    /\ UNCHANGED <<fixedVars, pc, runs, batch, now, success_count, tool, outcome,
                   failed, before, imported, deleted>>

\* insert(...).execute() raises, or event_date is None and event_date.isoformat()
\* raises AttributeError before the call; nothing catches either
AddRaises ==
    /\ pc = "add" /\ pos <= Len(batch)
    /\ IF HolidayDate(batch[pos]) = None
       THEN attempted' = attempted /\ failed' = failed
       ELSE attempted' = attempted + 1 /\ failed' = failed + 1
    /\ Raise
    /\ UNCHANGED <<fixedVars, remote, nextId, runs, batch, pos, now, success_count,
                   tool, before, imported, deleted>>

AddReturn ==
    /\ pc = "add" /\ pos > Len(batch)
    /\ Return
    /\ UNCHANGED <<fixedVars, remote, nextId, runs, batch, pos, now, success_count,
                   tool, attempted, failed, before, imported, deleted>>

\* ---- delete_non_yellow_parents_days(service)
StartCleanup ==
    \E t \in NowChoices :
        /\ Begin("cleanup")
        /\ failed' = 0
        /\ pc' = "cleanup"
        /\ outcome' = "running"
        /\ now' = t
        /\ batch' = ListEvents(remote, t)
        /\ pos' = 1
        /\ UNCHANGED <<fixedVars, remote, nextId, success_count, imported, deleted>>

\* events().list(...).execute() raises
CleanupListFails ==
    \E t \in NowChoices :
        /\ Begin("cleanup")
        /\ failed' = 1
        /\ Raise
        /\ now' = t
        /\ batch' = <<>>
        /\ pos' = 1
        /\ UNCHANGED <<fixedVars, remote, nextId, success_count, imported, deleted>>

CleanupKeep ==
    /\ pc = "cleanup" /\ pos <= Len(batch)
    /\ ~ShouldDelete(batch[pos])
    /\ pos' = pos + 1
    /\ UNCHANGED <<fixedVars, remote, nextId, pc, runs, batch, now, success_count,
                   tool, outcome, attempted, failed, before, imported, deleted>>

CleanupDeleteOk ==
    /\ pc = "cleanup" /\ pos <= Len(batch)
    /\ ShouldDelete(batch[pos])
    /\ remote' = {e \in remote : e.id # batch[pos].id}
    /\ deleted' = deleted \cup {e \in remote : e.id = batch[pos].id}
    /\ attempted' = attempted + 1
    /\ pos' = pos + 1
    /\ UNCHANGED <<fixedVars, nextId, pc, runs, batch, now, success_count, tool,
                   outcome, failed, before, imported>>

\* delete(...).execute() raises; nothing catches it
CleanupDeleteFails ==
    /\ pc = "cleanup" /\ pos <= Len(batch)
    /\ ShouldDelete(batch[pos])
    /\ attempted' = attempted + 1
    /\ failed' = failed + 1
    /\ Raise
    /\ UNCHANGED <<fixedVars, remote, nextId, runs, batch, pos, now, success_count,
                   tool, before, imported, deleted>>

CleanupReturn ==
    /\ pc = "cleanup" /\ pos > Len(batch)
    /\ Return
    /\ UNCHANGED <<fixedVars, remote, nextId, runs, batch, pos, now, success_count,
                   tool, attempted, failed, before, imported, deleted>>

\* ---- ICSToGoogleCalendar.process_ics_file(ics_file_path)
\* whether the run gets past authentication, parsing and the preview
Proceeds(auth, events, confirm) ==
    auth /\ events # None /\ events.events # <<>> /\ confirm

StartImport ==
    \E f \in ImportFiles, auth \in BOOLEAN, ok \in BOOLEAN, confirm \in BOOLEAN :
        LET events == parse_ics_file(f, ok, Tz(tzlocal))
        IN /\ Begin("import")
           /\ failed' = 0
           /\ Proceeds(auth, events, confirm)
           /\ pc' = "import"
           /\ outcome' = "running"
           /\ batch' = events.events
           /\ pos' = 1
           /\ success_count' = 0
           /\ UNCHANGED <<fixedVars, remote, nextId, now, imported, deleted>>

\* authentication fails, nothing parses, or the preview is cancelled: return
ImportStops ==
    \E f \in ImportFiles, auth \in BOOLEAN, ok \in BOOLEAN, confirm \in BOOLEAN :
        LET events == parse_ics_file(f, ok, Tz(tzlocal))
        IN /\ Begin("import")
           /\ failed' = 0
           /\ ~Proceeds(auth, events, confirm)
           /\ Return
           /\ batch' = <<>>
           /\ pos' = 1
           /\ UNCHANGED <<fixedVars, remote, nextId, now, success_count, imported, deleted>>

ImportCreateOk ==
    /\ pc = "import" /\ pos <= Len(batch)
    /\ LET event == Stored(google_event(batch[pos]), nextId)
       IN /\ remote' = remote \cup {event}
          /\ imported' = imported \cup {event}
    /\ nextId' = nextId + 1
    /\ attempted' = attempted + 1
    /\ success_count' = success_count + 1
    /\ pos' = pos + 1
    /\ UNCHANGED <<fixedVars, pc, runs, batch, now, tool, outcome, failed, before,
                   deleted>>

\* insert raises; create_google_event catches it and returns None
ImportCreateFails ==
    /\ pc = "import" /\ pos <= Len(batch)
    /\ attempted' = attempted + 1
    /\ failed' = failed + 1
    /\ pos' = pos + 1
    /\ UNCHANGED <<fixedVars, remote, nextId, pc, runs, batch, now, success_count,
                   tool, outcome, before, imported, deleted>>

ImportReturn ==
    /\ pc = "import" /\ pos > Len(batch)
    /\ Return
    /\ UNCHANGED <<fixedVars, remote, nextId, runs, batch, pos, now, success_count,
                   tool, attempted, failed, before, imported, deleted>>

Next ==
    \/ StartAdd \/ AddInsertOk \/ AddRaises \/ AddReturn
    \/ StartCleanup \/ CleanupListFails \/ CleanupKeep \/ CleanupDeleteOk
    \/ CleanupDeleteFails \/ CleanupReturn
    \/ StartImport \/ ImportStops \/ ImportCreateOk \/ ImportCreateFails \/ ImportReturn

Spec == Init /\ [][Next]_vars

(***************************************************************************)
(* Resolver specification: one call on arguments drawn from bounded sets.  *)
(***************************************************************************)
ResolverArgs ==
    [script : {"api", "generator"},
     year : FirstYear .. (FirstYear + YearSpan),
     month : 1..12,
     weekday : 0..6,
     n : (0 - MinNeg) .. MaxN]

ICSIdle == tzlocal = 0 /\ file = <<>> /\ readable = FALSE /\ parsed = None

InitResolver ==
    /\ rArgs \in ResolverArgs
    /\ rResult = Pending
    /\ ICSIdle
    /\ SyncIdle

CallApiResolver ==
    /\ rResult = Pending
    /\ rArgs.script = "api"
    /\ rResult' = get_nth_weekday(rArgs.year, rArgs.month, rArgs.weekday, rArgs.n)
    /\ UNCHANGED <<rArgs, icsVars, syncVars>>

CallGeneratorResolver ==
    /\ rResult = Pending
    /\ rArgs.script = "generator"
    /\ rResult' = generator_get_nth_weekday(rArgs.year, rArgs.month, rArgs.weekday, rArgs.n)
    /\ UNCHANGED <<rArgs, icsVars, syncVars>>

NextResolver == CallApiResolver \/ CallGeneratorResolver

SpecResolver == InitResolver /\ [][NextResolver]_vars

(***************************************************************************)
(* Claims about the sync scripts (specification Spec).                     *)
(***************************************************************************)
Title(event) == Get(event, "summary", "")

RunEnded(name) == pc = "idle" /\ tool = name

\* whether the calendar already held the tool-owned event of a holiday item
Present(item, calendar) ==
    \E e \in calendar :
        /\ IsYellow(e) /\ Title(e) = item.spec.title
        /\ e.start = [date |-> IsoDate(HolidayDate(item))]

\* C1: create-mode sync is idempotent: a holiday run whose events were all on
\* the calendar already issues no insert, so the remote calendar never holds
\* two tool-owned (yellow) events with the same title and start date.
C1_CreateIsIdempotent ==
    /\ (RunEnded("add") /\ outcome = "returned"
            /\ \A i \in 1..Len(batch) : Present(batch[i], before))
          => attempted = 0
    /\ \A e \in remote, f \in remote :
          (IsYellow(e) /\ IsYellow(f) /\ Title(e) = Title(f) /\ e.start = f.start)
              => e.id = f.id

\* C2: cleanup never deletes an event whose title is outside the interest set,
\* whatever its colorId: every delete ever made was of an interest-set title, and
\* during and after a cleanup run every such event the run started with is
\* still on the remote calendar.
C2_CleanupKeepsOtherTitles ==
    /\ \A e \in deleted : Title(e) \in Interest
    /\ tool = "cleanup" => \A e \in before : Title(e) \notin Interest => e \in remote

\* a cleanup run returned after deleting something, and a listed event that is
\* not yellow and has another title is still there
C2_Witness ==
    /\ RunEnded("cleanup") /\ outcome = "returned"
    /\ deleted # {}
    /\ \E e \in Range(batch) : Title(e) \notin Interest /\ ~IsYellow(e) /\ e \in remote

\* the listed events a cleanup run is to delete: interest-set title, colorId
\* absent or other than "5"
ToDelete(listed) ==
    {e \in listed : Title(e) \in Interest /\ ("colorId" \notin DOMAIN e \/ e.colorId # "5")}

\* C3: when no gateway call fails, a cleanup run deletes exactly the listed
\* events with an interest-set title whose colorId is absent or not "5", and
\* keeps everything else; the listing holds every event that starts at or after
\* now.
C3_CleanupDeletesExactly ==
    (RunEnded("cleanup") /\ outcome = "returned" /\ failed = 0) =>
        /\ Range(batch) \subseteq before
        /\ {e \in before : FieldInstant(e.start) >= InstantOfText(now)} \subseteq Range(batch)
        /\ remote = before \ ToDelete(Range(batch))
        /\ attempted = Cardinality(ToDelete(Range(batch)))

\* the run of the example: three "Mother's Day" events (yellow, no colorId,
\* another colorId) and "Unrelated" were listed, and exactly the two
\* non-yellow "Mother's Day" events are gone
C3_Witness ==
    /\ RunEnded("cleanup") /\ outcome = "returned" /\ failed = 0
    /\ \E a \in Range(batch), b \in Range(batch), c \in Range(batch), u \in Range(batch) :
        /\ Title(a) = "Mother's Day" /\ IsYellow(a)
        /\ Title(b) = "Mother's Day" /\ "colorId" \notin DOMAIN b
        /\ Title(c) = "Mother's Day" /\ "colorId" \in DOMAIN c /\ c.colorId # "5"
        /\ Title(u) = "Unrelated"
        /\ before \ remote = {b, c}
        /\ {a, u} \subseteq remote

\* C4 as stated: an imported event carries no colorId and, whatever its title,
\* is never removed from the remote calendar by cleanup.
C4_ImportedNeverDeleted ==
    \A e \in imported : "colorId" \notin DOMAIN e /\ e \in remote

\* C4 amended: an imported event carries no colorId, and cleanup leaves it on
\* the remote calendar unless its title is in the interest set.
C4_ImportedKeptUnlessHolidayTitle ==
    \A e \in imported :
        /\ "colorId" \notin DOMAIN e
        /\ Title(e) \notin Interest => e \in remote

\* a cleanup run returned with an imported event of another title listed and
\* kept, after deleting something
C4_Witness ==
    /\ RunEnded("cleanup") /\ outcome = "returned"
    /\ \E e \in imported : e \in remote /\ e \in Range(batch) /\ Title(e) \notin Interest
    /\ deleted # {}

\* the insert/delete calls a run makes when every item of its batch is tried
Expected ==
    IF tool = "cleanup" THEN Cardinality({i \in 1..Len(batch) : ShouldDelete(batch[i])})
    ELSE Len(batch)

\* C5: a failed create or delete does not abort the batch: when a run of any
\* of the three loops has ended, the call for every item has been attempted.
C5_BatchSurvivesFailure ==
    (pc = "idle" /\ tool \in {"add", "cleanup", "import"}) => attempted = Expected

(***************************************************************************)
(* Claims about the ICS normalizer (specification SpecICS).                *)
(***************************************************************************)
Parsed == parsed # Pending /\ parsed # None

Normalized(c) == extract_event_data(c, Tz(tzlocal))

IsVEvent(c) == c.name = "VEVENT"

\* C7: an all-day VEVENT (dtstart a bare date, no dtend) is normalized to an
\* all-day event that ends the day after it starts, and that is the end.date
\* sent to the gateway.
C7_AllDayEndsNextDay ==
    Parsed =>
        \A i \in 1..Len(file) :
            LET c == file[i] IN
            (IsVEvent(c) /\ "dtstart" \in DOMAIN c /\ c.dtstart.type = "date"
                /\ "dtend" \notin DOMAIN c)
            => /\ Normalized(c) # None
               /\ Normalized(c).all_day
               /\ Normalized(c).start_time = IsoDate(c.dtstart)
               /\ Normalized(c).end_time = IsoDate(PlusOneDay(c.dtstart))
               /\ google_event(Normalized(c)).end = [date |-> IsoDate(PlusOneDay(c.dtstart))]

\* the positions of the VEVENTs of the file that normalize to an event
Kept == {i \in 1..Len(file) : IsVEvent(file[i]) /\ Normalized(file[i]) # None}

\* the k-th smallest element of a set of numbers
Nth(S, k) == CHOOSE i \in S : Cardinality({j \in S : j < i}) = k - 1

\* C8: a VEVENT with no dtstart normalizes to nothing, and the list
\* parse_ics_file returns holds the events of exactly the VEVENTs that
\* normalize, in file order: a skip drops one record and no later one.
C8_SkipsDoNotAbort ==
    Parsed =>
        /\ \A i \in 1..Len(file) :
              (IsVEvent(file[i]) /\ "dtstart" \notin DOMAIN file[i])
                  => Normalized(file[i]) = None
        /\ parsed.events = [k \in 1..Cardinality(Kept) |-> Normalized(file[Nth(Kept, k)])]

\* a file whose first VEVENT has no dtstart and whose second one was returned
C8_Witness ==
    /\ Parsed
    /\ Len(file) >= 2
    /\ IsVEvent(file[1]) /\ "dtstart" \notin DOMAIN file[1]
    /\ Kept = {2}
    /\ Len(parsed.events) = 1

\* C10: a timed VEVENT with a dtstart and no dtend is normalized to an event
\* that ends exactly one hour after the instant it starts, whether the start
\* had no timezone or an explicit one.
C10_TimedEndsOneHourLater ==
    Parsed =>
        \A i \in 1..Len(file) :
            LET c == file[i] IN
            (IsVEvent(c) /\ "dtstart" \in DOMAIN c /\ c.dtstart.type = "datetime"
                /\ "dtend" \notin DOMAIN c)
            => /\ Normalized(c) # None
               /\ InstantOfText(Normalized(c).end_time)
                    = InstantOfText(Normalized(c).start_time) + 60

(***************************************************************************)
(* Claims about the resolver.                                              *)
(***************************************************************************)
\* Day of week by Sakamoto's table (0 is Sunday), turned to Python's numbering:
\* the reference the resolver's answers are compared with.
RefWeekday(year, month, day) ==
    LET t == <<0, 3, 2, 5, 0, 3, 5, 1, 4, 6, 2, 4>>
        y == IF month < 3 THEN year - 1 ELSE year
        dow == (y + (y \div 4) - (y \div 100) + (y \div 400) + t[month] + day) % 7
    IN (dow + 6) % 7

RefDays(year, month, weekday) ==
    {d \in 1..DaysInMonth(year, month) : RefWeekday(year, month, d) = weekday}

\* C6: for n >= 1 the resolver returns the date of the month with the given
\* weekday that has exactly n-1 earlier dates of that weekday in the month, and
\* None when the month holds fewer than n such dates; (2025, 5, SUNDAY, 2) is
\* 2025-05-11 and (2025, 6, SUNDAY, 3) is 2025-06-15.
C6_NthWeekday ==
    (rResult # Pending /\ rArgs.n >= 1) =>
        LET S == RefDays(rArgs.year, rArgs.month, rArgs.weekday)
        IN /\ IF Cardinality(S) >= rArgs.n
              THEN /\ rResult # None
                   /\ rResult.year = rArgs.year
                   /\ rResult.month = rArgs.month
                   /\ rResult.day \in S
                   /\ Cardinality({d \in S : d < rResult.day}) = rArgs.n - 1
              ELSE rResult = None
           /\ (rArgs.year = 2025 /\ rArgs.month = 5 /\ rArgs.weekday = SUNDAY /\ rArgs.n = 2)
                  => IsoDate(rResult) = <<2025, 5, 11>>
           /\ (rArgs.year = 2025 /\ rArgs.month = 6 /\ rArgs.weekday = SUNDAY /\ rArgs.n = 3)
                  => IsoDate(rResult) = <<2025, 6, 15>>

\* a fifth occurrence that falls on the 31st has been resolved
C6_Witness ==
    /\ rResult # Pending /\ rResult # None
    /\ rArgs.n = 5 /\ rResult.day = 31

\* C9: a call with n <= 0 fails with InvalidArgument; it returns neither a
\* date nor None.
C9_InvalidArgument ==
    (rResult # Pending /\ rArgs.n <= 0) => rResult = [type |-> "InvalidArgument"]

====
